---- MODULE Spec2Model ----
(***************************************************************************)
(* A model of the lottery scraper (src/main.go).  The file holds two       *)
(* revisions of the program; where they differ, the later one (lines 354   *)
(* to 808) is modelled and the earlier one is noted.                       *)
(*                                                                         *)
(* A Go string is a sequence of one-character strings.  A regular          *)
(* expression is a record tree evaluated by Ends with Go's leftmost-first  *)
(* (backtracking priority) semantics, so each pattern of the source is     *)
(* written down as it is in the source.                                    *)
(***************************************************************************)
EXTENDS Integers, Sequences, FiniteSets, TLC

VARIABLES
    pc,        \* position of the document pipeline
    input,     \* the text handed to ProcessTextContent
    text,      \* the text ProcessTextContent returned
    result,    \* the map parseLotteryNumbers returned
    tickets,   \* the batch handed to checkWinningTickets
    winners,   \* the report checkWinningTickets returned
    lotteryList,  \* processLotteryResults: the documents of the refresh
    cpc,          \* processLotteryResults: position of the collecting loop
    wpc,          \* position of each worker goroutine
    wres,         \* what processLottery returned to each worker
    resultChan,   \* the buffered channel of the workers' messages
    received,     \* messages the collecting loop has taken
    results,      \* the map the collecting loop builds
    crashed,      \* an unrecovered panic has ended the process
    tagged,       \* the text after the two tagging steps of ProcessTextContent
    retagged,     \* the tagging steps applied to their own output
    lotteryResults,    \* the dataset served: LastUpdated and Results
    lotteryListCache,  \* the list of draws served
    rpc,          \* crawlAndSaveResults: position of the refresh
    crawlList,    \* crawlAndSaveResults: its lotteryList
    crawlResults, \* crawlAndSaveResults: its results
    refreshes,    \* refreshes started so far
    before,       \* the dataset when the running refresh started
    reads,        \* what the readers were served since the refresh started
    combined,     \* the report of the last checkTickets request
    fpc,          \* getLotteryList: position
    firstVisit,   \* getLotteryList: its argument
    datas,        \* getLotteryList: the rows collected
    now,          \* getLotteryList: the time it took at its start
    clock,        \* the time it is
    attempts,     \* visits of the site made by the call
    fetched       \* the rows the last visit found

docVars == <<pc, input, text, result, tickets, winners>>

refreshVars ==
    <<lotteryList, cpc, wpc, wres, resultChan, received, results, crashed>>

tagVars == <<tagged, retagged>>

serverVars ==
    <<lotteryResults, lotteryListCache, rpc, crawlList, crawlResults,
      refreshes, before, reads, combined>>

fetchVars == <<fpc, firstVisit, datas, now, clock, attempts, fetched>>

restVars == <<tagVars, serverVars, fetchVars>>

vars == <<docVars, refreshVars, restVars>>

----------------------------------------------------------------------------
(* Strings                                                                 *)

Digit == {"0", "1", "2", "3", "4", "5", "6", "7", "8", "9"}

Upper == {"A", "B", "C", "D", "E", "F", "G", "H", "I", "J", "K", "L", "M",
          "N", "O", "P", "Q", "R", "S", "T", "U", "V", "W", "X", "Y", "Z"}

\* the white space of \s and, among the characters of the texts modelled, of
\* strings.TrimSpace
WhiteSpace == {" ", "\t", "\n", "\f", "\r"}

RECURSIVE Flatten(_)
Flatten(ss) == IF ss = <<>> THEN <<>> ELSE Head(ss) \o Flatten(Tail(ss))

\* s[i+1 .. j], for offsets 0 <= i <= j <= Len(s): Go's s[i:j]
Slice(s, i, j) == SubSeq(s, i + 1, j)

RECURSIVE TrimLeft(_)
TrimLeft(s) ==
    IF s # <<>> /\ Head(s) \in WhiteSpace THEN TrimLeft(Tail(s)) ELSE s

RECURSIVE TrimRight(_)
TrimRight(s) ==
    IF s # <<>> /\ s[Len(s)] \in WhiteSpace
    THEN TrimRight(SubSeq(s, 1, Len(s) - 1)) ELSE s

TrimSpace(s) == TrimRight(TrimLeft(s))

\* strings.Split(s, sep) for a one-character sep: always at least one part
RECURSIVE Split(_, _)
Split(s, sep) ==
    IF \E i \in 1..Len(s) : s[i] = sep
    THEN LET i == CHOOSE k \in 1..Len(s) :
                      s[k] = sep /\ \A m \in 1..(k - 1) : s[m] # sep
         IN  <<SubSeq(s, 1, i - 1)>> \o Split(SubSeq(s, i + 1, Len(s)), sep)
    ELSE <<s>>

\* strings.SplitN(s, sep, 2): one part when sep does not occur, else two
SplitN2(s, sep) ==
    IF \E i \in 1..Len(s) : s[i] = sep
    THEN LET i == CHOOSE k \in 1..Len(s) :
                      s[k] = sep /\ \A m \in 1..(k - 1) : s[m] # sep
         IN  <<SubSeq(s, 1, i - 1), SubSeq(s, i + 1, Len(s))>>
    ELSE <<s>>

\* strings.Contains(s, sub)
Contains(s, sub) ==
    \E i \in 0..(Len(s) - Len(sub)) : Slice(s, i, i + Len(sub)) = sub

----------------------------------------------------------------------------
(* Regular expressions (package regexp: leftmost-first matching)           *)

Lit(c) == [t |-> "set", cs |-> {c}]
Set(cs) == [t |-> "set", cs |-> cs]
NotSet(cs) == [t |-> "not", cs |-> cs]
Cat(rs) == [t |-> "cat", rs |-> rs]
Alt(rs) == [t |-> "alt", rs |-> rs]
Star(r) == [t |-> "star", r |-> r, greedy |-> TRUE]
LazyStar(r) == [t |-> "star", r |-> r, greedy |-> FALSE]
Plus(r) == Cat(<<r, Star(r)>>)
Opt(r) == Alt(<<r, Cat(<<>>)>>)
Rep(r, n) == Cat([i \in 1..n |-> r])
Str(s) == Cat([i \in 1..Len(s) |-> Lit(s[i])])
Dot == NotSet({"\n"})
D == Set(Digit)
AZ == Set(Upper)
WS == Set(WhiteSpace)

\* The offsets at which a match of r starting at offset i of s can end, in
\* the order a backtracking matcher tries them; the first is the match.
RECURSIVE Ends(_, _, _)
RECURSIVE EndsFrom(_, _, _)
EndsFrom(r, s, es) ==
    IF es = <<>> THEN <<>>
    ELSE Ends(r, s, Head(es)) \o EndsFrom(r, s, Tail(es))

Ends(r, s, i) ==
    CASE r.t = "set" ->
           IF i < Len(s) /\ s[i + 1] \in r.cs THEN <<i + 1>> ELSE <<>>
      [] r.t = "not" ->
           IF i < Len(s) /\ s[i + 1] \notin r.cs THEN <<i + 1>> ELSE <<>>
      [] r.t = "cat" ->
           IF r.rs = <<>> THEN <<i>>
           ELSE EndsFrom(Cat(Tail(r.rs)), s, Ends(Head(r.rs), s, i))
      [] r.t = "alt" ->
           IF r.rs = <<>> THEN <<>>
           ELSE Ends(Head(r.rs), s, i) \o Ends(Alt(Tail(r.rs)), s, i)
      [] r.t = "star" ->
           LET more == EndsFrom(r, s, SelectSeq(Ends(r.r, s, i),
                                                LAMBDA e : e > i))
           IN  IF r.greedy THEN more \o <<i>> ELSE <<i>> \o more

\* Regexp.FindAllStringIndex(s, -1) from offset i: the successive
\* non-overlapping matches as <<start, end>> offsets.  No pattern of the
\* program matches the empty string.
RECURSIVE FindAllIndex(_, _, _)
FindAllIndex(re, s, i) ==
    IF i >= Len(s) THEN <<>>
    ELSE LET es == Ends(re, s, i)
         IN  IF es = <<>> THEN FindAllIndex(re, s, i + 1)
             ELSE <<<<i, es[1]>>>> \o FindAllIndex(re, s, es[1])

\* Regexp.FindAllString(s, -1)
FindAllString(re, s) ==
    LET ms == FindAllIndex(re, s, 0)
    IN  [k \in 1..Len(ms) |-> Slice(s, ms[k][1], ms[k][2])]

\* Regexp.ReplaceAllString(s, pre $0 post) when keep, (s, pre post) otherwise
RECURSIVE Rebuild(_, _, _, _, _, _)
Rebuild(s, ms, from, pre, keep, post) ==
    IF ms = <<>> THEN Slice(s, from, Len(s))
    ELSE Slice(s, from, Head(ms)[1]) \o pre
         \o (IF keep THEN Slice(s, Head(ms)[1], Head(ms)[2]) ELSE <<>>)
         \o post \o Rebuild(s, Tail(ms), Head(ms)[2], pre, keep, post)

ReplaceAllString(re, s, pre, keep, post) ==
    Rebuild(s, FindAllIndex(re, s, 0), 0, pre, keep, post)

----------------------------------------------------------------------------
(* The patterns of the program                                             *)

numbersRegex == Plus(D)

alphanumericRegex == Cat(<<Lit("["), Plus(AZ), Lit(" "), Plus(D), Lit("]")>>)

seriesRegex == Cat(<<Lit("["), AZ, Lit("]")>>)

headerPattern == Cat(<<Str(<<"K", "E", "R", "A", "L", "A">>), LazyStar(Dot), Str(<<" ", "1", "s", "t">>)>>)

footerPattern ==
    Cat(<<Str(<<"P", "a", "g", "e", " ">>), D, Str(<<" ", " ", "I", "T", " ", "S", "u", "p", "p", "o", "r", "t", " ", ":", " ", "N", "I", "C", " ", "K", "e", "r", "a", "l", "a", " ", " ">>),
          Rep(D, 2), Lit("/"), Rep(D, 2), Lit("/"), Rep(D, 4), Lit(" "),
          Rep(D, 2), Lit(":"), Rep(D, 2), Lit(":"), Rep(D, 2)>>)

EndFooterPattern == Cat(<<Str(<<"T", "h", "e", " ", "p", "r", "i", "z", "e", " ", "w", "i", "n", "n", "e", "r">>), Opt(Lit("s")), Star(Dot)>>)

trailingWhiteSpacePattern == Cat(<<Rep(WS, 2), Dot, WS>>)

bulletPattern == Cat(<<Alt(<<D, Rep(D, 2)>>), Lit(")")>>)

podiumSplit == Cat(<<Str(<<"F", "O", "R">>), Plus(Lit(" ")), Star(Dot), Str(<<" ", "N", "U", "M", "B", "E", "R", "S">>)>>)

lotteryTicketFull == Cat(<<Rep(AZ, 2), Lit(" "), Rep(D, 6)>>)

locationString == Cat(<<Lit("("), Plus(NotSet(WhiteSpace)), Lit(")")>>)

prizePositionString ==
    Alt(<<Cat(<<D, Alt(<<Str(<<"s", "t">>), Str(<<"r", "d">>), Str(<<"n", "d">>), Str(<<"t", "h">>)>>)>>),
          Str(<<"C", "o", "n", "s">>)>>)

prizeString ==
    Alt(<<Cat(<<Str(<<"P", "r", "i", "z", "e", " ", "R", "s", " ", ":">>), Plus(D), Str(<<"/", "-">>)>>),
          Cat(<<Str(<<"P", "r", "i", "z", "e", "-", "R", "s", " ", ":">>), Plus(D), Str(<<"/", "-">>)>>)>>)

seriesSelection == Cat(<<Lit("["), Dot>>)

SeriesKey == <<"S", "e", "r", "i", "e", "s">>

----------------------------------------------------------------------------
(* Go maps from string to []string: a function on the keys present         *)

EmptyMap == [k \in {} |-> <<>>]

\* m[k] of a Go map: the nil slice when k is absent
Lookup(m, k) == IF k \in DOMAIN m THEN m[k] ELSE <<>>

\* an assignment m[k] = xs where the code appends
AssignAll(m, k, xs) ==
    IF xs = <<>> THEN m
    ELSE [j \in DOMAIN m \cup {k} |-> IF j = k THEN xs ELSE m[j]]

\* m[k] = append(m[k], xs...), applied only when xs is not empty
AppendAll(m, k, xs) ==
    IF xs = <<>> THEN m
    ELSE [j \in DOMAIN m \cup {k} |-> IF j = k THEN Lookup(m, k) \o xs ELSE m[j]]

----------------------------------------------------------------------------
(* ProcessTextContent                                                      *)

Remove(re, s) == ReplaceAllString(re, s, <<>>, FALSE, <<>>)

\* the loop over patternsToRemove; the header pattern is first replaced by
\* "1st" and then, like every pattern, by ""
RemovePatterns(s) ==
    LET s0 == Remove(headerPattern,
                     ReplaceAllString(headerPattern, s, <<"1", "s", "t">>, FALSE, <<>>))
        s1 == Remove(footerPattern, s0)
        s2 == Remove(bulletPattern, s1)
        s3 == Remove(EndFooterPattern, s2)
        s4 == Remove(trailingWhiteSpacePattern, s3)
        s5 == Remove(locationString, s4)
        s6 == Remove(podiumSplit, s5)
    IN  Remove(prizeString, s6)

TagPositions(s) == ReplaceAllString(prizePositionString, s, <<" ", "<", " ">>, TRUE, <<" ", ">", " ">>)

TagTickets(s) == ReplaceAllString(lotteryTicketFull, s, <<"[">>, TRUE, <<"]">>)

\* seriesMatches[0][1] prepended as a Series section, when there is a match
PrependSeries(s) ==
    LET seriesMatches == FindAllIndex(seriesSelection, s, 0)
    IN  IF Len(seriesMatches) > 0
        THEN LET series == Slice(s, seriesMatches[1][1] + 1, seriesMatches[1][2])
             IN  <<"<", " ", "S", "e", "r", "i", "e", "s", " ", ">", " ", "[">> \o series \o <<"]", " ">> \o s
        ELSE s

ProcessTextContent(s) == PrependSeries(TagTickets(TagPositions(RemovePatterns(s))))

----------------------------------------------------------------------------
(* parseLotteryNumbers                                                     *)

\* strings.SplitN(part, ">", 2)[1] panics when part holds no ">"
parsePositionAndNumbersPart(part) ==
    IF Len(SplitN2(part, ">")) < 2
    THEN [panic |-> TRUE, pos |-> <<>>, numbersPart |-> <<>>]
    ELSE [panic |-> FALSE,
          pos |-> TrimSpace(Split(part, ">")[1]),
          numbersPart |-> TrimSpace(SplitN2(part, ">")[2])]

\* the first capture group of each match: the match without its brackets
Group1(s, ms) == [k \in 1..Len(ms) |-> Slice(s, ms[k][1] + 1, ms[k][2] - 1)]

addSeriesMatches(res, pos, numbersPart) ==
    AppendAll(res, pos, Group1(numbersPart, FindAllIndex(seriesRegex, numbersPart, 0)))

addAlphanumericMatches(res, pos, numbersPart) ==
    AppendAll(res, pos,
              Group1(numbersPart, FindAllIndex(alphanumericRegex, numbersPart, 0)))

ChunkSize == 4

\* a loop that stops before a last chunk shorter than 4
RECURSIVE ChunksWholeOnly(_, _)
ChunksWholeOnly(num, i) ==
    IF i + ChunkSize <= Len(num)
    THEN <<Slice(num, i, i + ChunkSize)>> \o ChunksWholeOnly(num, i + ChunkSize)
    ELSE <<>>

\* for i := 0; i < len(num); i += 4 { append num[i:min(i+4, len(num))] }
RECURSIVE Chunks(_, _)
Chunks(num, i) ==
    IF i < Len(num)
    THEN LET end == IF i + ChunkSize > Len(num) THEN Len(num) ELSE i + ChunkSize
         IN  <<Slice(num, i, end)>> \o Chunks(num, i + ChunkSize)
    ELSE <<>>

RECURSIVE ChunksOfAll(_)
ChunksOfAll(numbers) ==
    IF numbers = <<>> THEN <<>>
    ELSE Chunks(Head(numbers), 0) \o ChunksOfAll(Tail(numbers))

\* the digit runs taken from the remainder with its tickets still in it
addNumericMatchesUnstripped(res, pos, numbersPart) ==
    AppendAll(res, pos, ChunksOfAll(FindAllString(numbersRegex, numbersPart)))

addNumericMatches(res, pos, numbersPart) ==
    LET stripped == Remove(alphanumericRegex, numbersPart)
        numbers == FindAllString(numbersRegex, stripped)
    IN  AppendAll(res, pos, ChunksOfAll(numbers))

\* the loop over the parts; a panic ends it
RECURSIVE parseParts(_, _)
parseParts(parts, res) ==
    IF parts = <<>> THEN [panic |-> FALSE, m |-> res]
    ELSE LET part == TrimSpace(Head(parts))
         IN  IF part = <<>> THEN parseParts(Tail(parts), res)
             ELSE LET pn == parsePositionAndNumbersPart(part)
                  IN  IF pn.panic THEN [panic |-> TRUE, m |-> EmptyMap]
                      ELSE parseParts(Tail(parts),
                             addNumericMatches(
                               addAlphanumericMatches(
                                 addSeriesMatches(res, pn.pos, pn.numbersPart),
                                 pn.pos, pn.numbersPart),
                               pn.pos, pn.numbersPart))

parseLotteryNumbers(s) == parseParts(Split(s, "<"), EmptyMap)

----------------------------------------------------------------------------
(* checkWinningTickets                                                     *)

\* len(series) > 0 && series[0] == string(ticket[0]); ticket[0] panics on
\* the empty ticket, and is not evaluated when series is empty.  The texts
\* modelled are ASCII, where string(ticket[0]) is the first character.
\* a gate that compares only the leading character of the first fragment
isMatchingSeriesByPrefix(series, ticket) ==
    IF Len(series) = 0 THEN "no"
    ELSE IF Len(ticket) = 0 THEN "panic"
    ELSE IF Len(series[1]) > 0 /\ series[1][1] = ticket[1] THEN "yes" ELSE "no"

\* a gate without the len(series) > 0 test: series[0] panics on no series
isMatchingSeriesUnguarded(series, ticket) ==
    IF Len(series) = 0 \/ Len(ticket) = 0 THEN "panic"
    ELSE IF series[1] = <<ticket[1]>> THEN "yes" ELSE "no"

isMatchingSeries(series, ticket) ==
    IF Len(series) = 0 THEN "no"
    ELSE IF Len(ticket) = 0 THEN "panic"
    ELSE IF series[1] = <<ticket[1]>> THEN "yes" ELSE "no"

\* a match by equality instead of containment
isWinningTicketByEquality(ticket, nums) ==
    \E k \in 1..Len(nums) : ticket = nums[k]

isWinningTicket(ticket, nums) ==
    \E k \in 1..Len(nums) : Contains(ticket, nums[k])

\* a loop that appends the ticket for every fragment it contains
checkTicketForWinningPositionsPerFragment(ticket, res, win) ==
    LET hits(pos) == Cardinality({k \in 1..Len(res[pos]) :
                                     Contains(ticket, res[pos][k])})
        won == {pos \in DOMAIN res : pos # SeriesKey /\ hits(pos) > 0}
    IN  [pos \in DOMAIN win \cup won |->
            IF pos \in won
            THEN Lookup(win, pos) \o [k \in 1..hits(pos) |-> ticket]
            ELSE win[pos]]

checkTicketForWinningPositions(ticket, res, win) ==
    LET won == {pos \in DOMAIN res :
                   pos # SeriesKey /\ isWinningTicket(ticket, res[pos])}
    IN  [pos \in DOMAIN win \cup won |->
            IF pos \in won THEN Append(Lookup(win, pos), ticket) ELSE win[pos]]

RECURSIVE checkLoop(_, _, _)
checkLoop(res, batch, win) ==
    IF batch = <<>> THEN [panic |-> FALSE, winners |-> win]
    ELSE LET g == isMatchingSeries(Lookup(res, SeriesKey), Head(batch))
         IN  CASE g = "panic" -> [panic |-> TRUE, winners |-> EmptyMap]
               [] g = "no" -> checkLoop(res, Tail(batch), win)
               [] g = "yes" ->
                    checkLoop(res, Tail(batch),
                              checkTicketForWinningPositions(Head(batch), res, win))

checkWinningTickets(res, batch) == checkLoop(res, batch, EmptyMap)

----------------------------------------------------------------------------
(* Bounds and the inputs drawn within them                                 *)

MaxRawPieces == 3
MaxStreamPieces == 4
MaxFrags == 2
MaxTickets == 3
MaxPipelineTickets == 1

SeqsUpTo(S, n) == UNION {[1..k -> S] : k \in 0..n}

\* texts handed to ProcessTextContent: pieces of a result sheet, with stray
\* characters
RawPieces ==
    {<<"1", "s", "t", " ">>, <<"C", "o", "n", "s", " ">>, <<"A", "B", " ", "1", "2", "3", "4", "5", "6", " ">>, <<"1", "2", "3", "4", "5", " ">>, <<"3", ")", " ">>, <<"x", " ">>, <<"[", "7">>, <<"S", "e", "r", "i", "e", "s", " ", ">", " ">>}

RawTexts == {Flatten(ps) : ps \in SeqsUpTo(RawPieces, MaxRawPieces)}

\* marker streams handed to parseLotteryNumbers
StreamPieces ==
    {<<"<", " ", "1", "s", "t", " ", ">", " ">>, <<"<", " ", "C", "o", "n", "s", " ", ">", " ">>, <<"[", "A", "]">>, <<"[", "A", "B", " ", "1", "2", "3", "4", "5", "6", "]">>, <<"A", "B", " ", "1", "2", "3", "4", "5", "6">>,
     <<"1", "2", "3", "4", "5">>, <<"6", "7", " ">>}

Streams == {Flatten(ps) : ps \in SeqsUpTo(StreamPieces, MaxStreamPieces)}

\* result maps handed to checkWinningTickets
Key1st == <<"1", "s", "t">>
KeyCons == <<"C", "o", "n", "s">>

SeriesLists == {<<>>, <<<<"A">>>>, <<<<"A", "B">>>>, <<<<"B">>, <<"A">>>>}

FragPool == {<<"A", "B", "1", "2", "3", "4", "5", "6">>, <<"3", "4", "5", "6">>, <<"9", "9">>}

TicketPool == {<<"A", "B", "1", "2", "3", "4", "5", "6">>, <<"A", "Z", "9", "9", "3", "4", "5", "6">>, <<"B", "A", "1", "2", "3", "4", "5", "6">>, <<>>}

MapOf(keys, f) == [k \in keys |-> f[k]]

ResultMaps ==
    {MapOf(keys, [k \in {SeriesKey, Key1st, KeyCons} |->
                    IF k = SeriesKey THEN ser ELSE IF k = Key1st THEN first ELSE cons])
       : keys \in SUBSET {SeriesKey, Key1st, KeyCons},
         ser \in SeriesLists,
         first \in SeqsUpTo(FragPool, MaxFrags),
         cons \in {<<>>, <<<<"3", "4", "5", "6">>>>}}

----------------------------------------------------------------------------
(* The document pipeline: ExtractTextFromPDFContent hands the page text to *)
(* ProcessTextContent, processLottery hands the outcome to                 *)
(* parseLotteryNumbers, checkTickets hands a stored map and the request's  *)
(* tickets to checkWinningTickets.                                         *)

ExtractText ==
    /\ pc = "raw"
    /\ text' = ProcessTextContent(input)
    /\ pc' = "normalized"
    /\ UNCHANGED <<input, result, tickets, winners, refreshVars, restVars>>

ParseText ==
    /\ pc = "normalized"
    /\ LET r == parseLotteryNumbers(text)
       IN  /\ pc' = IF r.panic THEN "parse_panic" ELSE "parsed"
           /\ result' = r.m
    /\ UNCHANGED <<input, text, tickets, winners, refreshVars, restVars>>

CheckBatch(n) ==
    /\ pc = "parsed"
    /\ \E batch \in SeqsUpTo(TicketPool, n) :
         LET c == checkWinningTickets(result, batch)
         IN  /\ tickets' = batch
             /\ winners' = c.winners
             /\ pc' = IF c.panic THEN "check_panic" ELSE "checked"
    /\ UNCHANGED <<input, text, result, refreshVars, restVars>>

CheckRequest == CheckBatch(MaxTickets)

\* the tagging steps are not looked at on their own
NoTagging ==
    /\ tagged = <<>>
    /\ retagged = <<>>

\* the server does not run
NoServer ==
    /\ lotteryResults = [LastUpdated |-> <<>>, Results |-> <<>>]
    /\ lotteryListCache = <<>>
    /\ rpc = "off"
    /\ crawlList = <<>>
    /\ crawlResults = <<>>
    /\ refreshes = 0
    /\ before = <<>>
    /\ reads = {}
    /\ combined = <<>>

\* getLotteryList is not looked at on its own
NoFetch ==
    /\ fpc = "off"
    /\ firstVisit = FALSE
    /\ datas = <<>>
    /\ now = <<>>
    /\ clock = 0
    /\ attempts = 0
    /\ fetched = <<>>

Rest == NoTagging /\ NoServer /\ NoFetch

\* no refresh is running
NoRefresh ==
    /\ lotteryList = <<>>
    /\ cpc = "idle"
    /\ wpc = <<>>
    /\ wres = <<>>
    /\ resultChan = <<>>
    /\ received = 0
    /\ results = EmptyMap
    /\ crashed = FALSE

CheckParsed == CheckBatch(MaxPipelineTickets)

\* checkWinningTickets on every result map
InitMatch ==
    /\ pc = "parsed"
    /\ input = <<>>
    /\ text = <<>>
    /\ result \in ResultMaps
    /\ tickets = <<>>
    /\ winners = EmptyMap
    /\ NoRefresh
    /\ Rest

NextMatch == CheckRequest

SpecMatch == InitMatch /\ [][NextMatch]_vars

\* parseLotteryNumbers on every marker stream
InitParse ==
    /\ pc = "normalized"
    /\ input = <<>>
    /\ text \in Streams
    /\ result = EmptyMap
    /\ tickets = <<>>
    /\ winners = EmptyMap
    /\ NoRefresh
    /\ Rest

NextParse == ParseText

SpecParse == InitParse /\ [][NextParse]_vars

\* a document from its page text to the ticket check
InitPipeline ==
    /\ pc = "raw"
    /\ input \in RawTexts
    /\ text = <<>>
    /\ result = EmptyMap
    /\ tickets = <<>>
    /\ winners = EmptyMap
    /\ NoRefresh
    /\ Rest

NextPipeline == ExtractText \/ ParseText \/ CheckParsed

SpecPipeline == InitPipeline /\ [][NextPipeline]_vars

----------------------------------------------------------------------------
(* What the claims about checkWinningTickets are stated with               *)

IsSubstring(sub, s) ==
    \E i \in 1..(Len(s) + 1) : \E j \in (i - 1)..Len(s) : SubSeq(s, i, j) = sub

Count(seq, x) == Cardinality({i \in 1..Len(seq) : seq[i] = x})

Occurs(seq, x) == \E i \in 1..Len(seq) : seq[i] = x

HasSeries(res) == SeriesKey \in DOMAIN res /\ Len(res[SeriesKey]) > 0

\* the first Series fragment is the ticket's first character, and nothing more
SeriesIsFirstChar(res, t) ==
    HasSeries(res) /\ Len(t) > 0 /\ res[SeriesKey][1] = <<t[1]>>

\* the first Series fragment starts with the ticket's first character
SeriesLeadsWithFirstChar(res, t) ==
    /\ HasSeries(res) /\ Len(t) > 0 /\ Len(res[SeriesKey][1]) > 0
    /\ res[SeriesKey][1][1] = t[1]

Tiers(res) == DOMAIN res \ {SeriesKey}

MatchingFragments(res, p, t) ==
    {k \in 1..Len(res[p]) : IsSubstring(res[p][k], t)}

Wins(res, p, t) == MatchingFragments(res, p, t) # {}

Checked == pc \in {"checked", "check_panic"}

NonEmpty(t) == Len(t) > 0

NoEmptyTicket == \A i \in 1..Len(tickets) : tickets[i] # <<>>

InSomeList(t) == \E p \in DOMAIN winners : Occurs(winners[p], t)

\* the report of the batch b on the map res
ExpectedList(res, b, p) ==
    SelectSeq(b, LAMBDA t : SeriesIsFirstChar(res, t) /\ Wins(res, p, t))

ExpectedReport(res, b) ==
    LET won == {p \in Tiers(res) : ExpectedList(res, b, p) # <<>>}
    IN  [p \in won |-> ExpectedList(res, b, p)]

\* C1: on a batch of non-empty tickets the report holds, for each tier but
\* Series, the tickets that pass the series gate and contain a fragment of
\* the tier, in submission order and once per occurrence; a tier with no
\* such ticket and Series are no keys of the report.
C1_ReportIsFilteredBatch ==
    (Checked /\ NoEmptyTicket) =>
        /\ pc = "checked"
        /\ SeriesKey \notin DOMAIN winners
        /\ DOMAIN winners \subseteq DOMAIN result
        /\ \A p \in Tiers(result) :
             LET want == ExpectedList(result, tickets, p)
             IN  IF want = <<>> THEN p \notin DOMAIN winners
                 ELSE p \in DOMAIN winners /\ winners[p] = want

C1_Witness ==
    /\ pc = "checked"
    /\ result = (SeriesKey :> <<<<"A">>>>) @@ (Key1st :> <<<<"A", "B", "1", "2", "3", "4", "5", "6">>>>)
                  @@ (KeyCons :> <<<<"3", "4", "5", "6">>>>)
    /\ tickets = <<<<"A", "B", "1", "2", "3", "4", "5", "6">>, <<"A", "Z", "9", "9", "3", "4", "5", "6">>, <<"B", "A", "1", "2", "3", "4", "5", "6">>>>
    /\ winners = (Key1st :> <<<<"A", "B", "1", "2", "3", "4", "5", "6">>>>)
                   @@ (KeyCons :> <<<<"A", "B", "1", "2", "3", "4", "5", "6">>, <<"A", "Z", "9", "9", "3", "4", "5", "6">>>>)

\* C2 as claimed: a ticket is excluded from every tier exactly when Series
\* is absent, empty, or the leading character of its first fragment differs
\* from the ticket's first character.
C2_GateOnLeadingCharacter ==
    (Checked /\ NoEmptyTicket) =>
        /\ pc = "checked"
        /\ \A i \in 1..Len(tickets) :
             IF SeriesLeadsWithFirstChar(result, tickets[i])
             THEN \A p \in Tiers(result) :
                    Wins(result, p, tickets[i]) =>
                        p \in DOMAIN winners /\ Occurs(winners[p], tickets[i])
             ELSE ~InSomeList(tickets[i])

\* C2 amended: a ticket is excluded from every tier exactly when Series is
\* absent, empty, or its first fragment is not the one-character string made
\* of the ticket's first character; otherwise it is in every tier it wins.
C2_GateOnWholeFragment ==
    (Checked /\ NoEmptyTicket) =>
        /\ pc = "checked"
        /\ \A i \in 1..Len(tickets) :
             IF SeriesIsFirstChar(result, tickets[i])
             THEN \A p \in Tiers(result) :
                    Wins(result, p, tickets[i]) =>
                        p \in DOMAIN winners /\ Occurs(winners[p], tickets[i])
             ELSE ~InSomeList(tickets[i])

\* a first Series fragment of two characters that starts with the ticket's
\* first character, and a tier the ticket would win
C2_Witness ==
    /\ pc = "checked"
    /\ HasSeries(result) /\ Len(result[SeriesKey][1]) = 2
    /\ \E i \in 1..Len(tickets) :
         /\ SeriesLeadsWithFirstChar(result, tickets[i])
         /\ \E p \in Tiers(result) : Wins(result, p, tickets[i])
         /\ ~InSomeList(tickets[i])

\* C3 as claimed: a ticket that k >= 2 fragments of one tier match is in the
\* tier's list k times for each of its occurrences in the batch.
C3_OncePerMatchingFragment ==
    (pc = "checked") =>
        \A i \in 1..Len(tickets) : \A p \in Tiers(result) :
            LET k == Cardinality(MatchingFragments(result, p, tickets[i]))
            IN  (SeriesIsFirstChar(result, tickets[i]) /\ k >= 2) =>
                    /\ p \in DOMAIN winners
                    /\ Count(winners[p], tickets[i]) = k * Count(tickets, tickets[i])

\* C3 amended: a ticket that k >= 1 fragments of one tier match is in the
\* tier's list once for each of its occurrences in the batch, whatever k is.
C3_OncePerOccurrence ==
    (pc = "checked") =>
        \A i \in 1..Len(tickets) : \A p \in Tiers(result) :
            LET k == Cardinality(MatchingFragments(result, p, tickets[i]))
            IN  (SeriesIsFirstChar(result, tickets[i]) /\ k >= 1) =>
                    /\ p \in DOMAIN winners
                    /\ Count(winners[p], tickets[i]) = Count(tickets, tickets[i])

C3_Witness ==
    /\ pc = "checked"
    /\ \E i \in 1..Len(tickets) : \E p \in Tiers(result) :
         /\ SeriesIsFirstChar(result, tickets[i])
         /\ Cardinality(MatchingFragments(result, p, tickets[i])) >= 2
         /\ Count(tickets, tickets[i]) = 2
         /\ Count(winners[p], tickets[i]) = 2

\* C4: an empty ticket fails alone: the call returns, and its report is the
\* report of the batch without the empty tickets.
C4_EmptyTicketFailsAlone ==
    Checked =>
        /\ pc = "checked"
        /\ winners = ExpectedReport(result, SelectSeq(tickets, NonEmpty))

----------------------------------------------------------------------------
(* What the claims about parseLotteryNumbers are stated with: the parts,   *)
(* keys, tokens and digit runs of a text, by position                      *)

Sorted(S) ==
    [k \in 1..Cardinality(S) |->
        CHOOSE x \in S : Cardinality({y \in S : y < x}) = k - 1]

Trimmed(s) ==
    LET ink == {i \in 1..Len(s) : s[i] \notin WhiteSpace}
    IN  IF ink = {} THEN <<>>
        ELSE SubSeq(s, CHOOSE a \in ink : \A b \in ink : a <= b,
                       CHOOSE a \in ink : \A b \in ink : a >= b)

\* the texts between the "<" of s, in order
PartsOf(s) ==
    LET cuts == Sorted({i \in 1..Len(s) : s[i] = "<"} \cup {0, Len(s) + 1})
    IN  [k \in 1..(Len(cuts) - 1) |-> SubSeq(s, cuts[k] + 1, cuts[k + 1] - 1)]

HasGt(s) == \E i \in 1..Len(s) : s[i] = ">"

\* the parts the loop does not skip
FragmentsOf(s) == SelectSeq(PartsOf(s), LAMBDA part : Trimmed(part) # <<>>)

\* some fragment has no ">"
HasBareFragment(s) ==
    \E k \in 1..Len(FragmentsOf(s)) : ~HasGt(FragmentsOf(s)[k])

FirstGt(s) == CHOOSE i \in 1..Len(s) : s[i] = ">" /\ \A j \in 1..(i - 1) : s[j] # ">"

KeyOf(frag) == Trimmed(SubSeq(frag, 1, FirstGt(frag) - 1))

RemainderOf(frag) == SubSeq(frag, FirstGt(frag) + 1, Len(frag))

AllIn(s, a, b, S) == a <= b /\ \A i \in a..b : s[i] \in S

\* (a) the bracketed single uppercase letters of s, left to right
LettersOf(s) ==
    LET at == Sorted({i \in 1..(Len(s) - 2) :
                        s[i] = "[" /\ s[i + 1] \in Upper /\ s[i + 2] = "]"})
    IN  [k \in 1..Len(at) |-> <<s[at[k] + 1]>>]

\* s[i..j] is a bracketed token: letters, one space, digits
IsTicketSpan(s, i, j) ==
    /\ s[i] = "[" /\ s[j] = "]"
    /\ \E sp \in (i + 2)..(j - 2) :
         s[sp] = " " /\ AllIn(s, i + 1, sp - 1, Upper) /\ AllIn(s, sp + 1, j - 1, Digit)

TicketSpans(s) ==
    {sp \in (1..Len(s)) \X (1..Len(s)) : IsTicketSpan(s, sp[1], sp[2])}

\* (b) the bracketed tickets of s, left to right, without their brackets
TicketsOf(s) ==
    LET starts == Sorted({sp[1] : sp \in TicketSpans(s)})
        endOf(i) == CHOOSE j \in 1..Len(s) : <<i, j>> \in TicketSpans(s)
    IN  [k \in 1..Len(starts) |-> SubSeq(s, starts[k] + 1, endOf(starts[k]) - 1)]

\* s without its bracketed tickets
WithoutTickets(s) ==
    LET kept == Sorted({i \in 1..Len(s) :
                          \A sp \in TicketSpans(s) : i < sp[1] \/ i > sp[2]})
    IN  [k \in 1..Len(kept) |-> s[kept[k]]]

\* the maximal digit runs of s, left to right
DigitRuns(s) ==
    LET isRun(a, b) ==
            /\ AllIn(s, a, b, Digit)
            /\ (a = 1 \/ s[a - 1] \notin Digit)
            /\ (b = Len(s) \/ s[b + 1] \notin Digit)
        starts == Sorted({a \in 1..Len(s) : \E b \in a..Len(s) : isRun(a, b)})
    IN  [k \in 1..Len(starts) |->
            SubSeq(s, starts[k], CHOOSE b \in starts[k]..Len(s) : isRun(starts[k], b))]

CeilDiv(a, b) == (a + b - 1) \div b

\* chunk k of the run R, by position
ChunkAt(R, k) ==
    SubSeq(R, 4 * (k - 1) + 1, IF 4 * k < Len(R) THEN 4 * k ELSE Len(R))

\* (c) the chunks of the digit runs of s without its tickets
RunChunks(R) == [k \in 1..CeilDiv(Len(R), 4) |-> ChunkAt(R, k)]

ChunksOfRuns(s) ==
    LET runs == DigitRuns(WithoutTickets(s))
    IN  Flatten([k \in 1..Len(runs) |-> RunChunks(runs[k])])

\* what one fragment adds to the list of its key
Extracted(frag) ==
    LET rem == RemainderOf(frag)
    IN  LettersOf(rem) \o TicketsOf(rem) \o ChunksOfRuns(rem)

KeysOf(s) == {KeyOf(FragmentsOf(s)[k]) : k \in 1..Len(FragmentsOf(s))}

ListOf(s, key) ==
    LET frags == SelectSeq(FragmentsOf(s), LAMBDA f : KeyOf(f) = key)
    IN  Flatten([k \in 1..Len(frags) |-> Extracted(frags[k])])

ExpectedParse(s) ==
    [key \in {k \in KeysOf(s) : ListOf(s, k) # <<>>} |-> ListOf(s, key)]

Parsed == pc \in {"parsed", "parse_panic"}

RECURSIVE ChunkCount(_)
ChunkCount(runs) ==
    IF runs = <<>> THEN 0
    ELSE CeilDiv(Len(Head(runs)), 4) + ChunkCount(Tail(runs))

\* the chunks addNumericMatches appends for the remainder rem
NumericOut(rem) == Lookup(addNumericMatches(EmptyMap, <<>>, rem), <<>>)

\* C6: for every fragment of a parsed stream, the chunks addNumericMatches
\* appends are, run after run of the remainder without its bracketed
\* tickets, ceil(L/4) chunks of length 4 but the last (1 to 4), that
\* concatenate to the run.
C6_ChunksPartitionRuns ==
    (pc = "parsed") =>
        \A f \in 1..Len(FragmentsOf(text)) :
            LET rem == Trimmed(RemainderOf(FragmentsOf(text)[f]))
                runs == DigitRuns(WithoutTickets(rem))
                out == NumericOut(rem)
                off(k) == ChunkCount(SubSeq(runs, 1, k - 1))
            IN  /\ Len(out) = ChunkCount(runs)
                /\ \A k \in 1..Len(runs) :
                     LET c == CeilDiv(Len(runs[k]), 4)
                         mine == SubSeq(out, off(k) + 1, off(k) + c)
                     IN  /\ \A m \in 1..(c - 1) : Len(mine[m]) = 4
                         /\ Len(mine[c]) \in 1..4
                         /\ Flatten(mine) = runs[k]

\* a remainder with a run of 5 digits beside a bracketed ticket
C6_Witness ==
    /\ pc = "parsed"
    /\ \E f \in 1..Len(FragmentsOf(text)) :
         LET rem == RemainderOf(FragmentsOf(text)[f])
         IN  /\ TicketsOf(rem) # <<>>
             /\ \E k \in 1..Len(DigitRuns(WithoutTickets(rem))) :
                  Len(DigitRuns(WithoutTickets(rem))[k]) = 5
             /\ Len(NumericOut(rem)) = 2

\* C7: when every fragment has a ">", the map holds for each key the
\* letters, then the tickets, then the digit chunks of each fragment with
\* that key, fragment after fragment in document order.
C7_ListsInDocumentOrder ==
    (Parsed /\ ~HasBareFragment(text)) =>
        /\ pc = "parsed"
        /\ result = ExpectedParse(text)

\* two fragments with one key: the chunks of the first stay in front of the
\* letter of the second
C7_Witness ==
    /\ pc = "parsed"
    /\ \E key \in DOMAIN result :
         /\ Len(SelectSeq(FragmentsOf(text), LAMBDA f : KeyOf(f) = key)) = 2
         /\ Len(result[key]) = 3
         /\ Len(result[key][1]) = 4 /\ result[key][1][1] \in Digit
         /\ Len(result[key][3]) = 1 /\ result[key][3][1] \in Upper

\* C8 as claimed: the text "< 1st > AB 123456" yields 1st -> ["AB 123456"].
C8_ExampleYieldsTicket ==
    (pc = "parsed" /\ text = <<"<", " ", "1", "s", "t", " ", ">", " ", "A", "B", " ", "1", "2", "3", "4", "5", "6">>) =>
        result = (Key1st :> << <<"A", "B", " ", "1", "2", "3", "4", "5", "6">> >>)

OnlyTicketsAndSpace(rem) ==
    \A i \in 1..Len(rem) :
        rem[i] \in WhiteSpace \/ \E sp \in TicketSpans(rem) : sp[1] <= i /\ i <= sp[2]

\* C8 amended: a bracketed ticket is recorded verbatim and none of its
\* digits as a chunk: a stream whose remainders hold only bracketed tickets
\* yields, for each key, those tickets and nothing else; the unbracketed
\* example yields the chunks of its six digits.
C8_BracketedTicketVerbatim ==
    /\ (pc = "parsed" /\ text = <<"<", " ", "1", "s", "t", " ", ">", " ", "A", "B", " ", "1", "2", "3", "4", "5", "6">>) =>
           result = (Key1st :> << <<"1", "2", "3", "4">>, <<"5", "6">> >>)
    /\ (Parsed /\ ~HasBareFragment(text)
          /\ \A f \in 1..Len(FragmentsOf(text)) :
               OnlyTicketsAndSpace(RemainderOf(FragmentsOf(text)[f]))) =>
           /\ pc = "parsed"
           /\ \A key \in KeysOf(text) :
                LET frags == SelectSeq(FragmentsOf(text), LAMBDA f : KeyOf(f) = key)
                    want == Flatten([k \in 1..Len(frags) |->
                                       TicketsOf(RemainderOf(frags[k]))])
                IN  want # <<>> => (key \in DOMAIN result /\ result[key] = want)

C8_Witness ==
    /\ pc = "parsed"
    /\ text = <<"<", " ", "1", "s", "t", " ", ">", " ", "[", "A", "B", " ", "1", "2", "3", "4", "5", "6", "]">>
    /\ result = (Key1st :> << <<"A", "B", " ", "1", "2", "3", "4", "5", "6">> >>)

----------------------------------------------------------------------------
(* What the claims about a document's way through the pipeline are stated  *)
(* with                                                                    *)

StartsWith(s, pre) == Len(s) >= Len(pre) /\ SubSeq(s, 1, Len(pre)) = pre

SeriesSection == <<"<", " ", "S", "e", "r", "i", "e", "s", " ", ">", " ", "[">>

\* no "[" of s is followed by a character: the series detection finds nothing
NoBracketToken(s) == \A i \in 1..(Len(s) - 1) : s[i] = "[" => s[i + 1] = "\n"

IsOneLetter(f) == Len(f) = 1 /\ f[1] \in Upper

Extracted1 == pc \in {"parsed", "checked", "check_panic"}

\* C9: the map of a processed and parsed text has no Series key, or a Series
\* list that starts with a single uppercase letter; a Series section that
\* ProcessTextContent prepends brackets a single uppercase letter.
C9_SeriesStartsWithLetter ==
    /\ Extracted1 =>
          \/ SeriesKey \notin DOMAIN result
          \/ IsOneLetter(result[SeriesKey][1])
    /\ (pc # "raw" /\ StartsWith(text, SeriesSection)) =>
          /\ text[Len(SeriesSection) + 1] \in Upper
          /\ text[Len(SeriesSection) + 2] = "]"

----------------------------------------------------------------------------
(* processLotteryResults: one goroutine per document runs processLottery   *)
(* and sends its outcome on a channel as large as the list; the caller     *)
(* receives one message per document.  A panic in a goroutine is recovered *)
(* nowhere: it ends the process.                                           *)

MaxDocs == 2

DrawNames == <<"KN-1", "WW-2", "SS-3", "AK-4", "NR-5">>

\* what the site serves for a document: no PDF, or the words of its pages
Pages ==
    {[ok |-> FALSE, words |-> <<>>],
     [ok |-> TRUE, words |-> <<"1", "s", "t", " ", "A", "B", " ", "1", "2", "3", "4", "5", "6", " ", "1", "2", "3", "4", "5", " ">>],
     [ok |-> TRUE, words |-> <<"C", "o", "n", "s", " ", "1", "2", "3", "4", "5", " ">>],
     [ok |-> TRUE, words |-> <<"x", " ", "1", "s", "t", " ", "1", "2", "3", "4", "5", " ">>]}

LotteryLists ==
    {[i \in 1..MaxDocs |-> [LotteryName |-> DrawNames[i], pdf |-> f[i]]] :
        f \in [1..MaxDocs -> Pages]}

\* processLottery: the map and error it returns, or its panic
processLottery(lottery) ==
    IF lottery.LotteryName = ""
    THEN [panic |-> FALSE, err |-> FALSE, data |-> EmptyMap]
    ELSE IF ~lottery.pdf.ok
    THEN [panic |-> FALSE, err |-> TRUE, data |-> EmptyMap]
    ELSE LET r == parseLotteryNumbers(ProcessTextContent(lottery.pdf.words))
         IN  [panic |-> r.panic, err |-> FALSE, data |-> r.m]

Workers == 1..Len(lotteryList)

\* make the channel, start the goroutines
StartWorkers ==
    /\ cpc = "idle" /\ ~crashed
    /\ cpc' = "collecting"
    /\ wpc' = [i \in Workers |-> "started"]
    /\ wres' = [i \in Workers |-> [err |-> FALSE, data |-> EmptyMap]]
    /\ resultChan' = <<>>
    /\ received' = 0
    /\ results' = EmptyMap
    /\ UNCHANGED <<docVars, restVars, lotteryList, crashed>>

\* data, err := processLottery(lottery)
WorkerRun(i) ==
    /\ ~crashed /\ cpc # "idle" /\ wpc[i] = "started"
    /\ LET o == processLottery(lotteryList[i])
       IN  IF o.panic
           THEN /\ crashed' = TRUE
                /\ wpc' = [wpc EXCEPT ![i] = "panicked"]
                /\ UNCHANGED wres
           ELSE /\ wpc' = [wpc EXCEPT ![i] = "computed"]
                /\ wres' = [wres EXCEPT ![i] = [err |-> o.err, data |-> o.data]]
                /\ UNCHANGED crashed
    /\ UNCHANGED <<docVars, restVars, lotteryList, cpc, resultChan, received, results>>

\* resultChan <- {lotteryName, data, err}
WorkerSend(i) ==
    /\ ~crashed /\ cpc # "idle" /\ wpc[i] = "computed"
    /\ Len(resultChan) < Len(lotteryList)
    /\ resultChan' = Append(resultChan,
                            [lotteryName |-> lotteryList[i].LotteryName,
                             data |-> wres[i].data, err |-> wres[i].err])
    /\ wpc' = [wpc EXCEPT ![i] = "done"]
    /\ UNCHANGED <<docVars, restVars, lotteryList, cpc, wres, received, results, crashed>>

\* result := <-resultChan, kept unless it carries an error
Receive ==
    /\ ~crashed /\ cpc = "collecting"
    /\ received < Len(lotteryList)
    /\ resultChan # <<>>
    /\ LET msg == Head(resultChan)
       IN  results' = IF msg.err THEN results
                      ELSE [n \in DOMAIN results \cup {msg.lotteryName} |->
                              IF n = msg.lotteryName THEN msg.data ELSE results[n]]
    /\ resultChan' = Tail(resultChan)
    /\ received' = received + 1
    /\ UNCHANGED <<docVars, restVars, lotteryList, cpc, wpc, wres, crashed>>

\* after the loop: an error when no document gave a result
Return ==
    /\ ~crashed /\ cpc = "collecting"
    /\ received = Len(lotteryList)
    /\ cpc' = IF DOMAIN results = {} THEN "failed" ELSE "returned"
    /\ UNCHANGED <<docVars, restVars, lotteryList, wpc, wres, resultChan, received,
                   results, crashed>>

InitRefresh ==
    /\ pc = "idle"
    /\ input = <<>>
    /\ text = <<>>
    /\ result = EmptyMap
    /\ tickets = <<>>
    /\ winners = EmptyMap
    /\ lotteryList \in LotteryLists
    /\ cpc = "idle"
    /\ wpc = <<>>
    /\ wres = <<>>
    /\ resultChan = <<>>
    /\ received = 0
    /\ results = EmptyMap
    /\ crashed = FALSE
    /\ Rest

NextRefresh ==
    \/ StartWorkers
    \/ \E i \in Workers : WorkerRun(i)
    \/ \E i \in Workers : WorkerSend(i)
    \/ Receive
    \/ Return

SpecRefresh == InitRefresh /\ [][NextRefresh]_vars

\* the text processLottery hands to parseLotteryNumbers has a fragment
\* without ">"
Unparsable(lottery) ==
    lottery.pdf.ok /\ HasBareFragment(ProcessTextContent(lottery.pdf.words))

Processed(i) == cpc # "idle" /\ wpc[i] # "started"

\* C5: a document whose text has a fragment without ">" fails alone: its
\* worker reports an error, the process goes on, and the map returned holds
\* the results of the other documents that were processed without failure.
C5_UnparsableDocumentFailsAlone ==
    /\ \A i \in Workers :
         (Processed(i) /\ Unparsable(lotteryList[i])) =>
             (~crashed /\ wpc[i] # "panicked" /\ wres[i].err)
    /\ (\E i \in Workers : Unparsable(lotteryList[i])) =>
         (cpc = "returned" =>
            \A j \in Workers :
                (lotteryList[j].pdf.ok /\ ~Unparsable(lotteryList[j])) =>
                    lotteryList[j].LotteryName \in DOMAIN results)

----------------------------------------------------------------------------
(* The two tagging steps of ProcessTextContent on a cleaned text: the      *)
(* ordinals are wrapped as markers, the full ticket numbers bracketed, and *)
(* the outcome, with its Series section, goes to parseLotteryNumbers.      *)

MaxTagPieces == 3

\* cleaned texts: tiers of a result sheet with their numbers
TagPieces ==
    {<<"1", "s", "t", " ">>, <<"2", "n", "d", " ">>, <<"1", "0", "t", "h", " ">>, <<"C", "o", "n", "s", " ">>, <<"A", "B", " ", "1", "2", "3", "4", "5", "6", " ">>, <<"1", "2", "3", "4", "5", " ">>, <<"5", " ">>}

CleanTexts == {Flatten(ps) : ps \in SeqsUpTo(TagPieces, MaxTagPieces)}

\* lines 664 and 665, then the Series section of lines 667 to 671
TagText ==
    /\ pc = "clean"
    /\ tagged' = TagTickets(TagPositions(input))
    /\ text' = PrependSeries(tagged')
    /\ pc' = "normalized"
    /\ UNCHANGED <<input, result, tickets, winners, retagged, refreshVars, serverVars,
                   fetchVars>>

\* lines 664 and 665 once more, on the text they returned
Retag ==
    /\ pc # "clean"
    /\ tagged # <<>> /\ retagged = <<>>
    /\ retagged' = TagTickets(TagPositions(tagged))
    /\ UNCHANGED <<docVars, tagged, refreshVars, serverVars, fetchVars>>

InitTag ==
    /\ pc = "clean"
    /\ input \in CleanTexts
    /\ text = <<>>
    /\ result = EmptyMap
    /\ tickets = <<>>
    /\ winners = EmptyMap
    /\ NoRefresh
    /\ Rest

NextTag == TagText \/ Retag \/ ParseText

SpecTag == InitTag /\ [][NextTag]_vars

\* the prize-tier ordinals
Ordinals ==
    {<<"1", "s", "t">>, <<"2", "n", "d">>, <<"3", "r", "d">>, <<"4", "t", "h">>, <<"5", "t", "h">>, <<"6", "t", "h">>, <<"7", "t", "h">>, <<"8", "t", "h">>, <<"9", "t", "h">>, <<"1", "0", "t", "h">>, <<"C", "o", "n", "s">>}

OrdinalSpans(s) ==
    {sp \in (1..Len(s)) \X (1..Len(s)) : SubSeq(s, sp[1], sp[2]) \in Ordinals}

\* the ordinals of s, left to right
OrdinalsOf(s) ==
    LET starts == Sorted({sp[1] : sp \in OrdinalSpans(s)})
        endOf(i) == CHOOSE j \in 1..Len(s) : <<i, j>> \in OrdinalSpans(s)
    IN  [k \in 1..Len(starts) |-> SubSeq(s, starts[k], endOf(starts[k]))]

\* s[i..j] is a marker "< X >"
IsMarkerSpan(s, i, j) ==
    /\ j >= i + 4
    /\ s[i] = "<" /\ s[i + 1] = " " /\ s[j - 1] = " " /\ s[j] = ">"
    /\ \A k \in (i + 1)..(j - 1) : s[k] \notin {"<", ">"}

MarkerSpans(s) ==
    {sp \in (1..Len(s)) \X (1..Len(s)) : IsMarkerSpan(s, sp[1], sp[2])}

\* what the markers of s wrap, left to right
MarkersOf(s) ==
    LET starts == Sorted({sp[1] : sp \in MarkerSpans(s)})
        endOf(i) == CHOOSE j \in 1..Len(s) : <<i, j>> \in MarkerSpans(s)
    IN  [k \in 1..Len(starts) |-> SubSeq(s, starts[k] + 2, endOf(starts[k]) - 2)]

\* the characters of s outside the spans, blanks and brackets dropped
Outside(s, spans) ==
    LET kept == Sorted({i \in 1..Len(s) :
                          /\ s[i] \notin {" ", "[", "]"}
                          /\ \A sp \in spans : i < sp[1] \/ i > sp[2]})
    IN  [k \in 1..Len(kept) |-> s[kept[k]]]

Range(f) == {f[k] : k \in DOMAIN f}

\* C11: the markers of the tagged text wrap, in order, the ordinals of the
\* cleaned text ("10th" as "< 10th >"), no character of an ordinal is left
\* outside its marker, and every tier key of the segmented text is one of
\* those ordinals.
C11_OrdinalsWrappedWhole ==
    /\ pc # "clean" =>
          /\ MarkersOf(tagged) = OrdinalsOf(input)
          /\ Outside(tagged, MarkerSpans(tagged)) = Outside(input, OrdinalSpans(input))
    /\ pc = "parsed" =>
          DOMAIN result \ {SeriesKey} \subseteq Range(OrdinalsOf(input))

\* C12: the tagging steps return their own output unchanged
C12_TaggingIdempotent == retagged # <<>> => retagged = tagged

----------------------------------------------------------------------------
(* The server: main loads the dataset and starts the HTTP handlers, then   *)
(* crawlAndSaveResults runs at startup and from the daily job, with no     *)
(* lock, while the handlers read the same variables.                       *)

MaxRefreshes == 1
MaxServeDocs == 2
MaxServeTickets == 2

\* LotteryDate strings "dd/mm/yyyy", as <<dd, mm, yyyy>>; "" as <<>>
ZeroTime == [y |-> 1, m |-> 1, d |-> 1]

DaysIn(m, y) ==
    IF m \in {4, 6, 9, 11} THEN 30
    ELSE IF m = 2 THEN (IF y % 4 = 0 /\ (y % 100 # 0 \/ y % 400 = 0) THEN 29 ELSE 28)
    ELSE 31

\* time.Parse("02/01/2006", s): the zero time and an error when s is no date
timeParse(s) ==
    IF /\ Len(s) = 3
       /\ s[2] \in 1..12
       /\ s[1] \in 1..DaysIn(s[2], s[3])
    THEN [err |-> FALSE, t |-> [y |-> s[3], m |-> s[2], d |-> s[1]]]
    ELSE [err |-> TRUE, t |-> ZeroTime]

Day(t) == t.d

\* line 586: the fetched list is taken as newer
TakenAsNewer(latestDate, at, LastUpdated) ==
    Day(latestDate) >= Day(at.t) \/ Day(LastUpdated) < Day(latestDate)

\* line 589: the data held is taken as up to date
TakenAsUpToDate(latestDate, at) ==
    Day(latestDate) <= Day(at.t) /\ at.before415

\* lines 482 to 495 on the outcomes out of the workers: the map holds the
\* data of the documents processed without error
collectResults(list, out) ==
    LET good == {i \in 1..Len(list) : ~out[i].err}
    IN  [panic |-> \E i \in 1..Len(list) : out[i].panic,
         err |-> good = {},
         results |-> [n \in {list[i].LotteryName : i \in good} |->
                        out[CHOOSE i \in good : list[i].LotteryName = n].data]]

\* processLotteryResults from its caller's side: a panic of a worker ends
\* the process before the collecting loop has its messages
processLotteryResults(list) ==
    collectResults(list, [i \in 1..Len(list) |-> processLottery(list[i])])

ServeDates == {<<30, 10, 2024>>, <<31, 10, 2024>>, <<31, 11, 2024>>}

ServePages ==
    {[ok |-> FALSE, words |-> <<>>],
     [ok |-> TRUE, words |-> <<"1", "s", "t", " ", "A", "B", " ", "1", "2", "3", "4", "5", "6", " ", "1", "2", "3", "4", " ">>],
     [ok |-> TRUE, words |-> <<"1", "s", "t", " ", "A", "B", " ", "1", "2", "3", "4", "5", "6", " ", "9", "9", "3", "4", " ">>],
     [ok |-> TRUE, words |-> <<"x", " ", "1", "s", "t", " ", "1", "2", "3", "4", "5", " ">>]}

\* what the site lists: rows with a name, the first row the latest draw
SiteLists ==
    UNION {{[i \in 1..k |-> [LotteryName |-> DrawNames[i],
                             LotteryDate |-> IF i = 1 THEN date ELSE <<30, 10, 2024>>,
                             pdf |-> f[i]]] :
              date \in ServeDates, f \in [1..k -> ServePages]} : k \in 0..MaxServeDocs}

ServeNows ==
    {[t |-> [y |-> 2024, m |-> 10, d |-> 31], before415 |-> b] : b \in BOOLEAN}

\* the dataset main starts with: results.json loaded, or nothing
OldResults ==
    [n \in {DrawNames[2]} |-> (SeriesKey :> <<<<"A">>>> @@ Key1st :> <<<<"3", "4", "5", "6">>>>)]

StartDatasets ==
    {[LastUpdated |-> ZeroTime, Results |-> EmptyMap],
     [LastUpdated |-> [y |-> 2024, m |-> 10, d |-> 30], Results |-> OldResults]}

Dataset == [lr |-> lotteryResults, cache |-> lotteryListCache]

\* crawlAndSaveResults is called: getLotteryList (line 436) returns.  On a
\* first visit it returns the rows fetched; otherwise it returns an error
\* for a date that does not parse, or the rows once the list is taken as
\* newer (LastUpdated set, line 587) or the data as up to date.
GetList ==
    /\ rpc \in {"idle", "returned", "failed"}
    /\ refreshes < MaxRefreshes
    /\ refreshes' = refreshes + 1
    /\ before' = Dataset
    /\ reads' = {}
    /\ crawlResults' = EmptyMap
    /\ \E first \in BOOLEAN, rows \in SiteLists, at \in ServeNows :
         IF first
         THEN /\ crawlList' = rows
              /\ rpc' = "listed"
              /\ UNCHANGED lotteryResults
         ELSE /\ rows # <<>>
              /\ LET p == timeParse(rows[1].LotteryDate)
                 IN  IF p.err
                     THEN /\ rpc' = "failed"
                          /\ crawlList' = <<>>
                          /\ UNCHANGED lotteryResults
                     ELSE IF TakenAsNewer(p.t, at, lotteryResults.LastUpdated)
                     THEN /\ lotteryResults' = [lotteryResults EXCEPT !.LastUpdated = p.t]
                          /\ crawlList' = rows
                          /\ rpc' = "listed"
                     ELSE /\ TakenAsUpToDate(p.t, at)
                          /\ crawlList' = rows
                          /\ rpc' = "listed"
                          /\ UNCHANGED lotteryResults
    /\ UNCHANGED <<docVars, refreshVars, tagVars, fetchVars, lotteryListCache, combined>>

\* lines 440 to 445: an empty list is an error; LastUpdated is set from the
\* first row
StampLastUpdated ==
    /\ rpc = "listed"
    /\ IF Len(crawlList) = 0
       THEN /\ rpc' = "failed"
            /\ UNCHANGED lotteryResults
       ELSE /\ lotteryResults' =
                  [lotteryResults EXCEPT !.LastUpdated = timeParse(crawlList[1].LotteryDate).t]
            /\ rpc' = "stamped"
    /\ UNCHANGED <<docVars, refreshVars, tagVars, fetchVars, lotteryListCache, crawlList,
                   crawlResults, refreshes, before, reads, combined>>

\* line 446
CacheList ==
    /\ rpc = "stamped"
    /\ lotteryListCache' = crawlList
    /\ rpc' = "cached"
    /\ UNCHANGED <<docVars, refreshVars, tagVars, fetchVars, lotteryResults, crawlList,
                   crawlResults, refreshes, before, reads, combined>>

\* lines 449 to 452
ProcessList ==
    /\ rpc = "cached"
    /\ LET o == processLotteryResults(crawlList)
       IN  IF o.panic THEN rpc' = "crashed" /\ UNCHANGED crawlResults
           ELSE IF o.err THEN rpc' = "failed" /\ UNCHANGED crawlResults
           ELSE rpc' = "processed" /\ crawlResults' = o.results
    /\ UNCHANGED <<docVars, refreshVars, tagVars, fetchVars, lotteryResults, lotteryListCache,
                   crawlList, refreshes, before, reads, combined>>

\* saveResults, lines 525 to 529
StoreResults ==
    /\ rpc = "processed"
    /\ IF DOMAIN crawlResults = {}
       THEN /\ rpc' = "failed"
            /\ UNCHANGED lotteryResults
       ELSE /\ lotteryResults' = [lotteryResults EXCEPT !.Results = crawlResults]
            /\ rpc' = "stored"
    /\ UNCHANGED <<docVars, refreshVars, tagVars, fetchVars, lotteryListCache, crawlList,
                   crawlResults, refreshes, before, reads, combined>>

\* saveResults, lines 530 to 535: the file is written, or the write fails
WriteFile ==
    /\ rpc = "stored"
    /\ \E ok \in BOOLEAN : rpc' = IF ok THEN "returned" ELSE "failed"
    /\ UNCHANGED <<docVars, refreshVars, tagVars, fetchVars, lotteryResults, lotteryListCache,
                   crawlList, crawlResults, refreshes, before, reads, combined>>

\* the process serves requests
Serving == rpc \notin {"off", "crashed"}

\* getAllResults: lotteryResults is encoded
GetAllResults ==
    /\ Serving
    /\ reads' = reads \cup {[op |-> "results",
                             LastUpdated |-> lotteryResults.LastUpdated,
                             Results |-> lotteryResults.Results,
                             list |-> <<>>]}
    /\ UNCHANGED <<docVars, refreshVars, tagVars, fetchVars, lotteryResults, lotteryListCache,
                   rpc, crawlList, crawlResults, refreshes, before, combined>>

\* listLotteries: lotteryListCache is encoded
ListLotteries ==
    /\ Serving
    /\ reads' = reads \cup {[op |-> "lotteries",
                             LastUpdated |-> ZeroTime,
                             Results |-> EmptyMap,
                             list |-> lotteryListCache]}
    /\ UNCHANGED <<docVars, refreshVars, tagVars, fetchVars, lotteryResults, lotteryListCache,
                   rpc, crawlList, crawlResults, refreshes, before, combined>>

\* winners[pos][lotteryName] = append(winners[pos][lotteryName],
\* winningTickets...) for every pos of currentWinners, lines 720 to 725,
\* with the lists of every draw already under pos extended as well
mergeWinnersAcrossDraws(win, lotteryName, currentWinners) ==
    [pos \in DOMAIN win \cup DOMAIN currentWinners |->
        IF pos \in DOMAIN currentWinners
        THEN [n \in DOMAIN Lookup(win, pos) \cup {lotteryName} |->
                Lookup(Lookup(win, pos), n) \o currentWinners[pos]]
        ELSE win[pos]]

\* lines 720 to 725
mergeWinners(win, lotteryName, currentWinners) ==
    [pos \in DOMAIN win \cup DOMAIN currentWinners |->
        IF pos \in DOMAIN currentWinners
        THEN [n \in DOMAIN Lookup(win, pos) \cup {lotteryName} |->
                IF n = lotteryName
                THEN Lookup(Lookup(win, pos), n) \o currentWinners[pos]
                ELSE win[pos][n]]
        ELSE win[pos]]

\* the body of the loop of line 718 with the winners written into the
\* draw's stored map
checkDrawStoringWinners(Res, lotteryName, batch, win) ==
    LET c == checkWinningTickets(Res[lotteryName], batch)
        stored == [pos \in DOMAIN Res[lotteryName] \cup DOMAIN c.winners |->
                      Lookup(Res[lotteryName], pos) \o Lookup(c.winners, pos)]
    IN  [panic |-> c.panic,
         winners |-> mergeWinners(win, lotteryName, c.winners),
         Results |-> [Res EXCEPT ![lotteryName] = stored]]

\* the body of the loop of line 718 for one draw: the report so far with
\* the draw's winners, and the stored maps as the call leaves them
checkDraw(Res, lotteryName, batch, win) ==
    LET c == checkWinningTickets(Res[lotteryName], batch)
    IN  [panic |-> c.panic,
         winners |-> mergeWinners(win, lotteryName, c.winners),
         Results |-> Res]

RECURSIVE checkDraws(_, _, _, _)
checkDraws(Res, order, batch, win) ==
    IF order = <<>> THEN [panic |-> FALSE, winners |-> win, Results |-> Res]
    ELSE LET o == checkDraw(Res, Head(order), batch, win)
         IN  IF o.panic THEN [panic |-> TRUE, winners |-> EmptyMap, Results |-> o.Results]
             ELSE checkDraws(o.Results, Tail(order), batch, o.winners)

\* the orders in which range may visit the keys of a map
Orders(S) == {o \in [1..Cardinality(S) -> S] : {o[k] : k \in DOMAIN o} = S}

ServeTicketPool == {<<"A", "B", "1", "2", "3", "4", "5", "6">>, <<"A", "Z", "9", "9", "3", "4", "5", "6">>, <<>>}

\* checkTickets: the tickets of the request are checked against every draw;
\* a panic ends the request, not the process (net/http recovers it)
CheckTickets ==
    /\ Serving
    /\ \E batch \in SeqsUpTo(ServeTicketPool, MaxServeTickets),
          order \in Orders(DOMAIN lotteryResults.Results) :
         LET c == checkDraws(lotteryResults.Results, order, batch, EmptyMap)
         IN  /\ tickets' = batch
             /\ combined' = [panic |-> c.panic, winners |-> c.winners,
                              on |-> lotteryResults.Results]
             /\ lotteryResults' = [lotteryResults EXCEPT !.Results = c.Results]
    /\ UNCHANGED <<pc, input, text, result, winners, refreshVars, tagVars, fetchVars,
                   lotteryListCache, rpc, crawlList, crawlResults, refreshes,
                   before, reads>>

InitServe ==
    /\ pc = "idle"
    /\ input = <<>>
    /\ text = <<>>
    /\ result = EmptyMap
    /\ tickets = <<>>
    /\ winners = EmptyMap
    /\ NoRefresh
    /\ NoTagging
    /\ NoFetch
    /\ lotteryResults \in StartDatasets
    /\ lotteryListCache = <<>>
    /\ rpc = "idle"
    /\ crawlList = <<>>
    /\ crawlResults = EmptyMap
    /\ refreshes = 0
    /\ before = Dataset
    /\ reads = {}
    /\ combined = [panic |-> FALSE, winners |-> EmptyMap, on |-> EmptyMap]

NextServe ==
    \/ GetList
    \/ StampLastUpdated
    \/ CacheList
    \/ ProcessList
    \/ StoreResults
    \/ WriteFile
    \/ GetAllResults
    \/ ListLotteries

SpecServe == InitServe /\ [][NextServe]_vars

\* the datasets a refresh can publish
PublishedDatasets ==
    {[LastUpdated |-> [y |-> 2024, m |-> 10, d |-> 30], Results |-> o.results] :
        o \in {p \in {processLotteryResults(list) : list \in SiteLists} :
                 ~p.panic /\ ~p.err}}

\* checkTickets requests served from a dataset
InitCheck ==
    /\ pc = "idle"
    /\ input = <<>>
    /\ text = <<>>
    /\ result = EmptyMap
    /\ tickets = <<>>
    /\ winners = EmptyMap
    /\ NoRefresh
    /\ NoTagging
    /\ NoFetch
    /\ lotteryResults \in StartDatasets \cup PublishedDatasets
    /\ lotteryListCache = <<>>
    /\ rpc = "idle"
    /\ crawlList = <<>>
    /\ crawlResults = EmptyMap
    /\ refreshes = 0
    /\ before = Dataset
    /\ reads = {}
    /\ combined = [panic |-> FALSE, winners |-> EmptyMap, on |-> EmptyMap]

NextCheck == CheckTickets

SpecCheck == InitCheck /\ [][NextCheck]_vars

\* what a read of the dataset d serves
ViewOf(d, op) ==
    IF op = "results"
    THEN [op |-> op, LastUpdated |-> d.lr.LastUpdated, Results |-> d.lr.Results,
          list |-> <<>>]
    ELSE [op |-> op, LastUpdated |-> ZeroTime, Results |-> EmptyMap, list |-> d.cache]

\* C13: when a refresh has returned, every read served since it started
\* shows the dataset as it was before the refresh or as it is after it.
C13_ReadersSeeWholeDataset ==
    rpc = "returned" =>
        \A r \in reads : r \in {ViewOf(before, r.op), ViewOf(Dataset, r.op)}

\* C18: after a refresh that returned an error, LastUpdated, Results and
\* the list cache are as they were when it was called.
C18_FailedRefreshLeavesDataset == rpc = "failed" => Dataset = before

\* a ticket check has been served without a panic
ReportBuilt == tickets # <<>> /\ ~combined.panic

\* C15: a step that serves a ticket check leaves the stored maps as they
\* were: the same draws, the same keys, the same lists.
C15_ChecksLeaveResults ==
    [][(combined' # combined \/ tickets' # tickets) =>
          lotteryResults'.Results = lotteryResults.Results]_vars

\* a check that found winners was served from a stored map
C15_Witness ==
    /\ ReportBuilt
    /\ combined.winners # EmptyMap
    /\ combined.on = lotteryResults.Results

\* C16: the report has an entry [tier][draw] exactly when
\* checkWinningTickets returned a non-empty list for that tier of that
\* draw, and the entry is that list.
C16_ReportKeyedByTierThenDraw ==
    ReportBuilt =>
        LET W == combined.winners
            cw(n) == checkWinningTickets(combined.on[n], tickets).winners
        IN  /\ \A pos \in DOMAIN W :
                  /\ DOMAIN W[pos] # {}
                  /\ DOMAIN W[pos] \subseteq DOMAIN combined.on
            /\ \A n \in DOMAIN combined.on :
                  \A pos \in DOMAIN W \cup DOMAIN cw(n) :
                      /\ (pos \in DOMAIN W /\ n \in DOMAIN W[pos]) <=>
                            Lookup(cw(n), pos) # <<>>
                      /\ Lookup(cw(n), pos) # <<>> => W[pos][n] = cw(n)[pos]

\* two draws, and a tier the ticket wins in one of them only
C16_Witness ==
    /\ ReportBuilt
    /\ Cardinality(DOMAIN combined.on) = 2
    /\ \E pos \in DOMAIN combined.winners :
          Cardinality(DOMAIN combined.winners[pos]) = 1

----------------------------------------------------------------------------
(* What the claims about the collection of the workers' results are stated *)
(* with                                                                    *)

\* the document is downloaded and its text has a marker before every
\* fragment: processLottery returns its map
Succeeds(lottery) == lottery.pdf.ok /\ ~Unparsable(lottery)

\* the map of the document's text, by position
OwnResult(lottery) == ExpectedParse(ProcessTextContent(lottery.pdf.words))

Succeeded == {i \in Workers : Succeeds(lotteryList[i])}

Finished == cpc \in {"returned", "failed"}

\* C14: whatever the documents and the order of the workers,
\* processLotteryResults gets to its return, and the map it returns holds
\* one entry for each document processed with success, that document's own
\* result, and nothing for a document that failed; it reports an error only
\* when no document succeeded.
C14_OneEntryPerSucceededDocument ==
    /\ ~crashed
    /\ cpc = "returned" =>
          /\ DOMAIN results = {lotteryList[i].LotteryName : i \in Succeeded}
          /\ \A i \in Succeeded :
                results[lotteryList[i].LotteryName] = OwnResult(lotteryList[i])
    /\ cpc = "failed" => Succeeded = {}

\* a worker that has its outcome finds room in the channel, and the
\* messages sent are those received or waiting
SendsNeverBlock ==
    cpc = "collecting" =>
        /\ \A i \in Workers : wpc[i] = "computed" => Len(resultChan) < Len(lotteryList)
        /\ received + Len(resultChan) = Cardinality({i \in Workers : wpc[i] = "done"})

\* returned, every worker past its one send, one message received for
\* each document
AllCollected ==
    /\ Finished
    /\ \A i \in Workers : wpc[i] = "done"
    /\ received = Len(lotteryList)
    /\ resultChan = <<>>

\* the process lives and a goroutine has a step to take: the caller before
\* the workers are started, at a receive with a message waiting or past its
\* loop; a worker before processLottery, or at its send with room in the
\* channel
SomeGoroutineRuns ==
    /\ ~crashed
    /\ \/ cpc = "idle"
       \/ cpc = "collecting" /\ (resultChan # <<>> \/ received = Len(lotteryList))
       \/ cpc = "collecting" /\
             \E i \in Workers :
                \/ wpc[i] = "started"
                \/ wpc[i] = "computed" /\ Len(resultChan) < Len(lotteryList)

\* C20: until processLotteryResults has returned with every worker past
\* its one send and one message received for each document, some goroutine
\* has a step to take (every step brings the return nearer), and no send
\* ever finds the channel full.
C20_TerminatesWithNothingBlocked ==
    /\ SendsNeverBlock
    /\ Finished => AllCollected
    /\ Finished \/ SomeGoroutineRuns

----------------------------------------------------------------------------
(* What the claim about a ticket in its canonical form is stated with      *)

\* two letters immediately followed by six digits
IsCanonicalTicket(t) ==
    Len(t) = 8 /\ AllIn(t, 1, 2, Upper) /\ AllIn(t, 3, 8, Digit)

\* a full ticket number as the sheet prints it: two letters, a space, six
\* digits
IsPrintedTicket(f) ==
    Len(f) = 9 /\ AllIn(f, 1, 2, Upper) /\ f[3] = " " /\ AllIn(f, 4, 9, Digit)

LettersAndDigits(f) == SelectSeq(f, LAMBDA c : c # " ")

\* C17: a canonical ticket of the draw's series whose letters and digits
\* are those of a full ticket number stored under a tier of the document's
\* map is in the winner list of that tier.
C17_CanonicalTicketWinsFullNumber ==
    pc = "checked" =>
        \A k \in 1..Len(tickets) :
            (IsCanonicalTicket(tickets[k]) /\ SeriesIsFirstChar(result, tickets[k])) =>
                \A p \in Tiers(result) :
                    (\E j \in 1..Len(result[p]) :
                        /\ IsPrintedTicket(result[p][j])
                        /\ LettersAndDigits(result[p][j]) = tickets[k])
                    => Occurs(Lookup(winners, p), tickets[k])

----------------------------------------------------------------------------
(* getLotteryList: the site is visited, once on a first visit, otherwise   *)
(* again and again until the first row collected is taken as newer or the  *)
(* data held as up to date.                                                *)

MaxAttempts == 3

\* the times of the visits: 31/10 before and after 16:15, 01/11 before 16:15,
\* 02/11 after 16:15
ClockTimes ==
    <<[t |-> [y |-> 2024, m |-> 10, d |-> 31], before415 |-> TRUE],
      [t |-> [y |-> 2024, m |-> 10, d |-> 31], before415 |-> FALSE],
      [t |-> [y |-> 2024, m |-> 11, d |-> 1], before415 |-> TRUE],
      [t |-> [y |-> 2024, m |-> 11, d |-> 2], before415 |-> FALSE]>>

Row(name, date) == [LotteryName |-> name, LotteryDate |-> date, PdfLink |-> "pdf"]

\* the table rows a visit can find, the latest draw first
SiteRows ==
    {<<>>,
     <<Row(DrawNames[1], <<30, 10, 2024>>)>>,
     <<Row(DrawNames[2], <<31, 10, 2024>>), Row(DrawNames[1], <<30, 10, 2024>>)>>,
     <<Row(DrawNames[3], <<1, 11, 2024>>), Row(DrawNames[2], <<31, 10, 2024>>)>>,
     <<Row(DrawNames[4], <<>>)>>}

\* lines 557 to 559: now and today3pm are taken once
FetchStart ==
    /\ fpc = "idle"
    /\ \E first \in BOOLEAN : firstVisit' = first
    /\ datas' = <<>>
    /\ now' = ClockTimes[clock]
    /\ fpc' = "visit"
    /\ UNCHANGED <<docVars, refreshVars, tagVars, serverVars, clock, attempts, fetched>>

\* c.Visit, lines 572 and 577: OnHTML appends every row found to datas
Visit ==
    /\ fpc = "visit"
    /\ attempts < MaxAttempts
    /\ attempts' = attempts + 1
    /\ \E rows \in SiteRows :
         /\ fetched' = rows
         /\ datas' = datas \o rows
    /\ fpc' = IF firstVisit THEN "returned" ELSE "decide"
    /\ UNCHANGED <<docVars, refreshVars, tagVars, serverVars, firstVisit, now, clock>>

\* lines 578 to 594
Decide ==
    /\ fpc = "decide"
    /\ IF Len(datas) = 0
       THEN fpc' = "sleep" /\ UNCHANGED lotteryResults
       ELSE LET p == timeParse(datas[1].LotteryDate)
            IN  IF p.err
                THEN fpc' = "error" /\ UNCHANGED lotteryResults
                ELSE IF TakenAsNewer(p.t, now, lotteryResults.LastUpdated)
                THEN /\ lotteryResults' = [lotteryResults EXCEPT !.LastUpdated = p.t]
                     /\ fpc' = "returned"
                ELSE IF TakenAsUpToDate(p.t, now)
                THEN fpc' = "returned" /\ UNCHANGED lotteryResults
                ELSE fpc' = "sleep" /\ UNCHANGED lotteryResults
    /\ UNCHANGED <<docVars, refreshVars, tagVars, lotteryListCache, rpc, crawlList,
                   crawlResults, refreshes, before, reads, combined, firstVisit,
                   datas, now, clock, attempts, fetched>>

\* time.Sleep, lines 580 and 594: ten or fifteen minutes later
Sleep ==
    /\ fpc = "sleep"
    /\ \E later \in {clock, clock + 1} :
         /\ later <= Len(ClockTimes)
         /\ clock' = later
    /\ fpc' = "visit"
    /\ UNCHANGED <<docVars, refreshVars, tagVars, serverVars, firstVisit, datas, now,
                   attempts, fetched>>

InitFetch ==
    /\ pc = "idle"
    /\ input = <<>>
    /\ text = <<>>
    /\ result = EmptyMap
    /\ tickets = <<>>
    /\ winners = EmptyMap
    /\ NoRefresh
    /\ NoTagging
    /\ lotteryResults \in
           {[LastUpdated |-> t, Results |-> OldResults] :
               t \in {ZeroTime, [y |-> 2024, m |-> 10, d |-> 30],
                      [y |-> 2024, m |-> 10, d |-> 31]}}
    /\ lotteryListCache = <<>>
    /\ rpc = "idle"
    /\ crawlList = <<>>
    /\ crawlResults = EmptyMap
    /\ refreshes = 0
    /\ before = Dataset
    /\ reads = {}
    /\ combined = [panic |-> FALSE, winners |-> EmptyMap, on |-> EmptyMap]
    /\ fpc = "idle"
    /\ firstVisit = FALSE
    /\ datas = <<>>
    /\ now = ClockTimes[1]
    /\ clock \in 1..Len(ClockTimes)
    /\ attempts = 0
    /\ fetched = <<>>

NextFetch == FetchStart \/ Visit \/ Decide \/ Sleep

SpecFetch == InitFetch /\ [][NextFetch]_vars

\* the first row of rows passes the tests of lines 586 and 589 at the time at
MeetsFreshnessTest(rows, at, LastUpdated) ==
    /\ rows # <<>>
    /\ ~timeParse(rows[1].LotteryDate).err
    /\ LET latestDate == timeParse(rows[1].LotteryDate).t
       IN  \/ Day(latestDate) >= Day(at.t)
           \/ Day(LastUpdated) < Day(latestDate)
           \/ Day(latestDate) <= Day(at.t) /\ at.before415

\* C19: when the rows a visit has just found meet the freshness test at the
\* time of the visit, the loop does not go to sleep for another round: it
\* returns, and with the list of that visit.
C19_RetryDecidesOnLatestFetch ==
    /\ (fpc = "sleep" /\ ~firstVisit) =>
          ~MeetsFreshnessTest(fetched, ClockTimes[clock], lotteryResults.LastUpdated)
    /\ (fpc = "returned" /\ ~firstVisit) => datas = fetched

(***************************************************************************)
(* The freshness test against the calendar.  The tests of lines 586 and    *)
(* 589 (and of line 179 in the first revision) compare Day(), the day of   *)
(* the month; the calendar compares year, month and day.                   *)
(***************************************************************************)

\* a is an earlier calendar date than b
CalendarBefore(a, b) ==
    \/ a.y < b.y
    \/ a.y = b.y /\ a.m < b.m
    \/ a.y = b.y /\ a.m = b.m /\ a.d < b.d

\* the loop has made its first decision, on the list of the first visit and
\* at the time now was taken, and the date of the first row parses
FirstDecisionMade ==
    /\ ~firstVisit
    /\ attempts = 1
    /\ fpc \in {"returned", "sleep"}
    /\ datas # <<>>
    /\ ~timeParse(datas[1].LotteryDate).err

LatestDrawDate == timeParse(datas[1].LotteryDate).t

\* C21: in non-first-visit mode the freshness test agrees with calendar
\* order, also across months: a list whose latest draw date is on or after
\* today's date, or strictly later than the LastUpdated held, is accepted
\* and LastUpdated set to that date; a list whose latest draw date is earlier
\* than both is not accepted as newer, LastUpdated staying as it was.
C21_FreshnessFollowsCalendar ==
    FirstDecisionMade =>
        LET held == before.lr.LastUpdated
        IN  /\ (\/ ~CalendarBefore(LatestDrawDate, now.t)
                \/ CalendarBefore(held, LatestDrawDate))
                  => /\ fpc = "returned"
                     /\ lotteryResults.LastUpdated = LatestDrawDate
            /\ (/\ CalendarBefore(LatestDrawDate, now.t)
                /\ CalendarBefore(LatestDrawDate, held))
                  => lotteryResults.LastUpdated = held

====
